---- MODULE Spec2Model ----
(***************************************************************************)
(* Model of @denis_bruns/nosql-mongodb: the MongoDB filter-expression      *)
(* builder (MongoExpressionBuilder), the query executor                    *)
(* (MongoQueryExecutor) and the pagination service (MongoDBService).       *)
(*                                                                         *)
(* Strings that the code inspects character by character (field names,     *)
(* object keys, pattern sources, ObjectId hex strings) are sequences of    *)
(* one-character strings.  JavaScript values are records                   *)
(*   [t, s, n, frac, kids]                                                 *)
(* t the type tag, s the text of a string / regex source / ObjectId hex,   *)
(* n.frac a number (frac in tenths), kids the <<key, value>> members of    *)
(* an object or array.                                                     *)
(***************************************************************************)
EXTENDS Integers, Sequences, FiniteSets, TLC

VARIABLES filters, built,
          coll, query, pc, frame, resp, err, countCalls, fetchCalls, logs, raised

vars == <<filters, built, coll, query, pc, frame, resp, err, countCalls, fetchCalls, logs, raised>>

(* ------------------------------ bounds -------------------------------- *)
MaxFilters == 2
NumCalls == 2
MaxDocs == 3
MaxPage == 2
MaxLimit == 2
MaxOffset == 1

(* ------------------------------ strings ------------------------------- *)
Rep(c, k) == [i \in 1..k |-> c]

ID == <<"i", "d">>
UID == <<"_", "i", "d">>
NAME == <<"n", "a", "m", "e">>
BADFIELD == <<"a", "$", "b">>
AB == <<"a", "B">>
ADOTB == <<"a", ".", "b">>

HexDigits == {"0", "1", "2", "3", "4", "5", "6", "7", "8", "9",
              "a", "b", "c", "d", "e", "f", "A", "B", "C", "D", "E", "F"}

ObjectIdHexLen == 24

OID1 == Rep("a", ObjectIdHexLen)
OID2 == Rep("b", ObjectIdHexLen)
OIDUPPER == Rep("A", ObjectIdHexLen)
SHORTHEX == Rep("a", ObjectIdHexLen - 1)
NONHEX == Rep("g", ObjectIdHexLen)

Includes(s, c) == \E i \in 1..Len(s) : s[i] = c

StartsWith(s, c) == Len(s) > 0 /\ s[1] = c

ToLowerChar(c) ==
    CASE c = "A" -> "a" [] c = "B" -> "b" [] c = "C" -> "c"
      [] c = "D" -> "d" [] c = "E" -> "e" [] c = "F" -> "f"
      [] OTHER -> c

(* ------------------------------- values ------------------------------- *)
Str(s) == [t |-> "string", s |-> s, n |-> 0, frac |-> 0, kids |-> <<>>]
Num(k) == [t |-> "number", s |-> <<>>, n |-> k, frac |-> 0, kids |-> <<>>]
Arr(vs) == [t |-> "array", s |-> <<>>, n |-> 0, frac |-> 0, kids |-> [i \in 1..Len(vs) |-> <<<<>>, vs[i]>>]]
Obj(members) == [t |-> "object", s |-> <<>>, n |-> 0, frac |-> 0, kids |-> members]
Frac(k, d) == [t |-> "number", s |-> <<>>, n |-> k, frac |-> d, kids |-> <<>>]
Undefined == [t |-> "undefined", s |-> <<>>, n |-> 0, frac |-> 0, kids |-> <<>>]
Symbol == [t |-> "symbol", s |-> <<>>, n |-> 0, frac |-> 0, kids |-> <<>>]
RegExp(source, flags) == [t |-> "regexp", s |-> source, n |-> 0, frac |-> 0, kids |-> <<<<flags, Num(0)>>>>]

\* new ObjectId(hex): the 12 bytes the hex string denotes; toString() prints
\* them as lower-case hex.
ObjectId(hex) == [t |-> "ObjectId", s |-> [i \in 1..Len(hex) |-> ToLowerChar(hex[i])], n |-> 0, frac |-> 0, kids |-> <<>>]

\* ObjectId.isValid of the driver: a string of 24 hex digits.
isValid(v) == v.t = "string" /\ Len(v.s) = ObjectIdHexLen /\ \A i \in 1..Len(v.s) : v.s[i] \in HexDigits

\* _id.toString()
toString(v) == Str(v.s)

(* ------------------------------- errors ------------------------------- *)
NoError == [kind |-> "none", detail |-> ""]
Error(kind, detail) == [kind |-> kind, detail |-> detail]

(* ----------------------------- validateValue -------------------------- *)
\* database-core validateValue: TRUE when the value passes; it fails on an
\* object that has a key starting with "$", at any depth in objects and arrays.
RECURSIVE validateValue(_)
validateValue(v) ==
    /\ v.t = "object" => \A i \in 1..Len(v.kids) : ~StartsWith(v.kids[i][1], "$")
    /\ v.t \in {"object", "array"} => \A i \in 1..Len(v.kids) : validateValue(v.kids[i][2])

(* ------------------------- MongoExpressionBuilder --------------------- *)
Filter(f, o, v) == [field |-> f, operator |-> o, value |-> v]

pkName == ID

EnumOperators == {"<", ">", "<=", ">=", "=", "!=", "in", "not in", "like", "not like"}

DLT == <<"$", "l", "t">>
DGT == <<"$", "g", "t">>
DLTE == <<"$", "l", "t", "e">>
DGTE == <<"$", "g", "t", "e">>
DEQ == <<"$", "e", "q">>
DNE == <<"$", "n", "e">>
DIN == <<"$", "i", "n">>
DNIN == <<"$", "n", "i", "n">>
DREGEX == <<"$", "r", "e", "g", "e", "x">>
DNOT == <<"$", "n", "o", "t">>

\* String(Object), the key a computed property makes of the Object constructor
ObjectFunctionText ==
    <<"f", "u", "n", "c", "t", "i", "o", "n", " ", "O", "b", "j", "e", "c", "t", "(", ")", " ",
      "{", " ", "[", "n", "a", "t", "i", "v", "e", " ", "c", "o", "d", "e", "]", " ", "}">>

\* operatorMap[operator]: the own entries of the table, and what the lookup
\* finds on Object.prototype for a name the table does not hold; <<>> is a
\* falsy result (undefined).
operatorMap(operator) ==
    CASE operator = "<" -> DLT
      [] operator = ">" -> DGT
      [] operator = "<=" -> DLTE
      [] operator = ">=" -> DGTE
      [] operator = "=" -> DEQ
      [] operator = "!=" -> DNE
      [] operator = "in" -> DIN
      [] operator = "not in" -> DNIN
      [] operator = "like" -> DREGEX
      [] operator = "not like" -> DNOT
      [] operator = "constructor" -> ObjectFunctionText
      [] OTHER -> <<>>

RegexSpecials == {"-", "/", "\\", "^", "$", "*", "+", "?", ".", "(", ")", "|", "[", "]", "{", "}"}

RECURSIVE escapeRegex(_)
escapeRegex(s) ==
    IF s = <<>> THEN <<>>
    ELSE (IF Head(s) \in RegexSpecials THEN <<"\\", Head(s)>> ELSE <<Head(s)>>) \o escapeRegex(Tail(s))

\* buildRegexPattern(value) for a string value
buildRegexPattern(value) == RegExp(escapeRegex(value.s), <<"i">>)

\* Results of the builder's steps: ok with a value, or the error thrown.
Ok(v) == [ok |-> TRUE, err |-> NoError, val |-> v]
Throw(e) == [ok |-> FALSE, err |-> e, val |-> <<>>]

buildSubExpression(field, operator, value) ==
    LET mongoOp == operatorMap(operator) IN
    IF mongoOp = <<>> THEN Throw(Error("Unsupported operator", operator))
    ELSE IF operator \in {"like", "not like"}
         THEN IF value.t # "string" THEN Throw(Error("TypeError", "value.replace is not a function"))
              ELSE LET pattern == buildRegexPattern(value) IN
                   IF operator = "like"
                   THEN Ok(Obj(<<<<mongoOp, pattern>>>>))
                   ELSE Ok(Obj(<<<<mongoOp, Obj(<<<<mongoOp, pattern>>>>)>>>>))
         ELSE Ok(Obj(<<<<mongoOp, value>>>>))

\* conditions[k] = v on a map from field names to predicates
\* a map in which the first write to a key stays
PutKeepFirst(m, k, v) == [x \in DOMAIN m \cup {k} |-> IF x \in DOMAIN m THEN m[x] ELSE v]
Put(m, k, v) == [x \in DOMAIN m \cup {k} |-> IF x = k THEN v ELSE m[x]]
EmptyMap == [x \in {} |-> Num(0)]

\* BaseExpressionBuilder.extractPartitionKeyFilter: the first filter on the
\* key field is taken out, the others stay in their order.
PkIndex(fs) ==
    IF \E i \in 1..Len(fs) : fs[i].field = pkName
    THEN CHOOSE i \in 1..Len(fs) : fs[i].field = pkName /\ \A j \in 1..(i - 1) : fs[j].field # pkName
    ELSE 0

extractPartitionKeyFilter(fs) ==
    LET k == PkIndex(fs) IN
    [hasPk |-> k # 0,
     pkFilter |-> IF k # 0 THEN fs[k] ELSE Filter(<<>>, "", Num(0)),
     remainingFilters |-> IF k = 0 THEN fs
                          ELSE SubSeq(fs, 1, k - 1) \o SubSeq(fs, k + 1, Len(fs))]

\* the pkFilter branch, lines 37-49
applyPkFilter(pk) ==
    IF Includes(pk.field, "$") THEN Throw(Error("Invalid field name", ""))
    ELSE IF pk.value.t = "string" /\ pk.field = ID /\ isValid(pk.value)
         THEN Ok(Put(EmptyMap, UID, ObjectId(pk.value.s)))
         ELSE Ok(Put(EmptyMap, pkName, pk.value))

\* a builder that leaves a remaining filter on id as it is
rewriteIdSkipped(f) == f

\* the id rewrite of a remaining filter, lines 55-61
rewriteId(f) ==
    IF f.field = ID /\ f.value.t = "string" /\ isValid(f.value)
    THEN Filter(UID, f.operator, ObjectId(f.value.s))
    ELSE f

\* a loop that does not look at the field name
RECURSIVE buildRemainingUnguarded(_, _)
buildRemainingUnguarded(rem, conditions) ==
    IF rem = <<>> THEN Ok(conditions)
    ELSE LET f == rewriteId(Head(rem))
             condition == buildSubExpression(f.field, f.operator, f.value)
         IN IF ~condition.ok THEN Throw(condition.err)
            ELSE buildRemainingUnguarded(Tail(rem), Put(conditions, f.field, condition.val))

\* remainingFilters.forEach, lines 51-73: the first throw ends the loop
RECURSIVE buildRemaining(_, _)
buildRemaining(rem, conditions) ==
    IF rem = <<>> THEN Ok(conditions)
    ELSE IF Includes(Head(rem).field, "$") THEN Throw(Error("Invalid field name", ""))
    ELSE LET f == rewriteId(Head(rem))
             condition == buildSubExpression(f.field, f.operator, f.value)
         IN IF ~condition.ok THEN Throw(condition.err)
            ELSE buildRemaining(Tail(rem), Put(conditions, f.field, condition.val))

\* a builder that validates the value of the first filter only
buildFilterExpressionFirstValueOnly(fs) ==
    IF Len(fs) = 0 THEN Ok(EmptyMap)
    ELSE IF ~validateValue(fs[1].value) THEN Throw(Error("ValidationError", ""))
    ELSE LET x == extractPartitionKeyFilter(fs)
             afterPk == IF x.hasPk THEN applyPkFilter(x.pkFilter) ELSE Ok(EmptyMap)
         IN IF ~afterPk.ok THEN afterPk
            ELSE buildRemaining(x.remainingFilters, afterPk.val)

buildFilterExpression(fs) ==
    IF Len(fs) = 0 THEN Ok(EmptyMap)
    ELSE IF \E i \in 1..Len(fs) : ~validateValue(fs[i].value) THEN Throw(Error("ValidationError", ""))
    ELSE LET x == extractPartitionKeyFilter(fs)
             afterPk == IF x.hasPk THEN applyPkFilter(x.pkFilter) ELSE Ok(EmptyMap)
         IN IF ~afterPk.ok THEN afterPk
            ELSE buildRemaining(x.remainingFilters, afterPk.val)

(* ----------------------------- pagination ----------------------------- *)
N == <<"n">>
DESC == <<"d", "e", "s", "c">>

Pagination(page, limit, offset, sortBy, sortDirection) ==
    [page |-> page, limit |-> limit, offset |-> offset, sortBy |-> sortBy, sortDirection |-> sortDirection]

Query(fs, pagination) == [filters |-> fs, pagination |-> pagination]

\* an exact integer: a number without a fractional part
IsInteger(v) == v.t = "number" /\ v.frac = 0

\* database-core validatePagination: page, limit and offset, when present,
\* must be exact integers.
validatePagination(pagination) ==
    IF pagination.page.t # "undefined" /\ ~IsInteger(pagination.page)
    THEN Throw(Error("must be an integer", "page"))
    ELSE IF pagination.limit.t # "undefined" /\ ~IsInteger(pagination.limit)
    THEN Throw(Error("must be an integer", "limit"))
    ELSE IF pagination.offset.t # "undefined" /\ ~IsInteger(pagination.offset)
    THEN Throw(Error("must be an integer", "offset"))
    ELSE Ok(<<>>)

DefaultLimit == 10
DefaultPage == 1

\* v ?? dflt: only an absent value takes the default, 0 is kept
NumberOrNullish(v, dflt) == IF v.t = "number" THEN v.n ELSE dflt

\* Number(v) || dflt for a value that passed validatePagination (undefined
\* or an integer): Number(undefined) is NaN, and NaN and 0 are falsy.
NumberOr(v, dflt) == IF v.t = "number" /\ v.n # 0 THEN v.n ELSE dflt

NoSort == [has |-> FALSE, field |-> <<>>, dir |-> 1]

\* lines 56-82 of prepareQueryParameters, after validatePagination passed
prepareValidated(q) ==
    LET pagination == q.pagination
        limit == NumberOr(pagination.limit, DefaultLimit)
        page == NumberOr(pagination.page, DefaultPage)
        baseOffset == IF pagination.offset.t # "undefined" THEN pagination.offset.n ELSE 0
        pageOffset == (page - 1) * limit
        totalOffset == baseOffset + pageOffset
        expr == buildFilterExpression(q.filters)
        sort == IF pagination.sortBy.t = "string" /\ pagination.sortBy.s # <<>>
                THEN [has |-> TRUE, field |-> pagination.sortBy.s,
                      dir |-> IF pagination.sortDirection = Str(DESC) THEN -1 ELSE 1]
                ELSE NoSort
    IN IF ~expr.ok THEN Throw(expr.err)
       ELSE Ok([params |-> [conditions |-> expr.val, sort |-> sort, limit |-> limit, skip |-> totalOffset],
                limit |-> limit, offset |-> totalOffset, page |-> page, baseOffset |-> baseOffset])

\* a service that does not validate the pagination
prepareQueryParametersUnvalidated(q) == prepareValidated(q)

prepareQueryParameters(q) ==
    LET v == validatePagination(q.pagination) IN
    IF ~v.ok THEN Throw(v.err) ELSE prepareValidated(q)

(* ------------------------- the collection (backend) ------------------- *)
HasKey(obj, key) == \E i \in 1..Len(obj.kids) : obj.kids[i][1] = key
Get(obj, key) == obj.kids[CHOOSE i \in 1..Len(obj.kids) : obj.kids[i][1] = key][2]

\* One predicate of the conditions on the value v of a field (has: the record
\* has the field).  A bare value is an equality; the comparison operators are
\* those of numbers; the pattern operators are not evaluated by this backend.
MatchPredicate(has, v, p) ==
    IF p.t = "object" /\ Len(p.kids) = 1 /\ StartsWith(p.kids[1][1], "$")
    THEN LET op == p.kids[1][1]
             arg == p.kids[1][2]
         IN CASE op = DEQ -> has /\ v = arg
              [] op = DNE -> ~(has /\ v = arg)
              [] op = DIN -> has /\ \E i \in 1..Len(arg.kids) : arg.kids[i][2] = v
              [] op = DNIN -> ~(has /\ \E i \in 1..Len(arg.kids) : arg.kids[i][2] = v)
              [] op = DLT -> has /\ v.t = "number" /\ arg.t = "number" /\ v.n < arg.n
              [] op = DLTE -> has /\ v.t = "number" /\ arg.t = "number" /\ v.n <= arg.n
              [] op = DGT -> has /\ v.t = "number" /\ arg.t = "number" /\ v.n > arg.n
              [] op = DGTE -> has /\ v.t = "number" /\ arg.t = "number" /\ v.n >= arg.n
              [] OTHER -> FALSE
    ELSE has /\ v = p

Matches(doc, conditions) ==
    \A f \in DOMAIN conditions :
        MatchPredicate(HasKey(doc, f), IF HasKey(doc, f) THEN Get(doc, f) ELSE Undefined, conditions[f])

RECURSIVE Select(_, _)
Select(docs, conditions) ==
    IF docs = <<>> THEN <<>>
    ELSE (IF Matches(Head(docs), conditions) THEN <<Head(docs)>> ELSE <<>>) \o Select(Tail(docs), conditions)

\* collection.countDocuments(conditions)
countDocuments(docs, conditions) == Len(Select(docs, conditions))

Before(a, b, sort) ==
    IF sort.dir = 1 THEN Get(a, sort.field).n < Get(b, sort.field).n
    ELSE Get(a, sort.field).n > Get(b, sort.field).n

RECURSIVE Insert(_, _, _)
Insert(d, sorted, sort) ==
    IF sorted = <<>> THEN <<d>>
    ELSE IF Before(d, Head(sorted), sort) THEN <<d>> \o sorted
    ELSE <<Head(sorted)>> \o Insert(d, Tail(sorted), sort)

\* cursor.sort(sort): a stable sort on a numeric field
RECURSIVE SortDocs(_, _)
SortDocs(docs, sort) ==
    IF docs = <<>> THEN <<>>
    ELSE Insert(docs[Len(docs)], SortDocs(SubSeq(docs, 1, Len(docs) - 1), sort), sort)

Drop(s, k) == IF k >= Len(s) THEN <<>> ELSE SubSeq(s, k + 1, Len(s))
Take(s, k) == IF k >= Len(s) THEN s ELSE SubSeq(s, 1, k)

NoLimit == 0

\* What the cursor built by find/sort/skip/limit returns from toArray();
\* limit NoLimit: no limit was set on the cursor.  The server rejects a
\* negative skip.
cursorToArray(docs, conditions, sort, skip, limit) ==
    IF skip < 0 THEN Throw(Error("BackendError", "skip must be non-negative"))
    ELSE LET found == Select(docs, conditions)
             ordered == IF sort.has THEN SortDocs(found, sort) ELSE found
             skipped == Drop(ordered, skip)
         IN Ok(IF limit = NoLimit THEN skipped ELSE Take(skipped, limit))

(* --------------------------- MongoQueryExecutor ----------------------- *)
\* the cursor calls executeQuery makes: sort when params.sort is set, skip
\* always (it is a number), limit only when it is positive
executeQuery(params, docs) ==
    cursorToArray(docs, params.conditions, params.sort, params.skip,
                  IF params.limit > 0 THEN params.limit ELSE NoLimit)

(* ------------------------------ MongoDBService ------------------------ *)
RECURSIVE Without(_, _)
Without(members, key) ==
    IF members = <<>> THEN <<>>
    ELSE (IF Head(members)[1] = key THEN <<>> ELSE <<Head(members)>>) \o Without(Tail(members), key)

\* { ...rest, id: _id.toString() }: the string form of _id always wins
reshapeIdLast(item) ==
    Obj(<<<<ID, toString(Get(item, UID))>>>> \o Without(Without(item.kids, UID), ID))

\* { id: _id.toString(), ...rest } with rest the item without _id: a member
\* id of rest overwrites the id written first
reshape(item) ==
    LET rest == Without(item.kids, UID)
        id == IF \E i \in 1..Len(rest) : rest[i][1] = ID
              THEN Get(Obj(rest), ID)
              ELSE toString(Get(item, UID))
    IN Obj(<<<<ID, id>>>> \o Without(rest, ID))

processResults(items) ==
    IF \E i \in 1..Len(items) : ~HasKey(items[i], UID)
    THEN Throw(Error("TypeError", "Cannot read properties of undefined"))
    ELSE Ok([i \in 1..Len(items) |-> reshape(items[i])])

Max(a, b) == IF a >= b THEN a ELSE b
Min(a, b) == IF a <= b THEN a ELSE b

\* Math.ceil(a / b) for integers a >= 0 and b # 0
CeilDiv(a, b) ==
    IF b > 0 THEN (a + b - 1) \div b
    ELSE -(a \div (-b))

\* lines 25-28: what the service computes from the count
afterCount(fr, totalBeforeOffset) ==
    LET effectiveTotal == Max(0, totalBeforeOffset - fr.baseOffset)
    IN [effectiveTotal |-> effectiveTotal, totalPages |-> CeilDiv(effectiveTotal, fr.limit)]

\* lines 32-39
makeResponse(fr, counted, items) ==
    LET data == processResults(items) IN
    IF ~data.ok THEN Throw(data.err)
    ELSE Ok([data |-> data.val, total |-> counted.effectiveTotal,
             page |-> Min(fr.page, counted.totalPages), limit |-> fr.limit])

\* a handler that throws a new error in place of the one it caught
handleErrorWrapped(error) == [logged |-> 1, thrown |-> Error("ServiceError", error.detail)]

\* handleError: logs the error and throws it
handleError(error) == [logged |-> 1, thrown |-> error]

(* -------------------------------- inputs ------------------------------ *)
WHERE == <<"$", "w", "h", "e", "r", "e">>
NESTED == <<"n", "e", "s", "t", "e", "d">>
DEEP == <<"d", "e", "e", "p">>
WEIRD == <<"w", "e", "i", "r", "d">>
CD == <<"c", "d">>

BadValues ==
    { Obj(<<<<WHERE, Str(AB)>>>>),
      Obj(<<<<NESTED, Obj(<<<<DNE, Num(0)>>>>)>>>>),
      Arr(<<Num(1), Obj(<<<<DREGEX, Str(AB)>>>>)>>),
      Obj(<<<<NESTED, Arr(<<Obj(<<<<DEEP, Obj(<<<<DGT, Num(1)>>>>)>>>>)>>)>>>>) }

StructuredValues ==
    { Arr(<<Num(1), Str(AB)>>),
      Obj(<<<<NESTED, Obj(<<<<DEEP, Num(1)>>>>)>>>>) }

OperatorsUnderTest == EnumOperators \cup {"invalid", "constructor", "not_in"}

FilterUniverse ==
    {Filter(NAME, o, Str(AB)) : o \in OperatorsUnderTest}
    \cup {Filter(ID, o, Str(AB)) : o \in {"=", "!=", "like", "invalid"}}
    \cup {Filter(ID, o, Str(h)) : o \in {"=", "like"}, h \in {OID1, OID2, OIDUPPER, SHORTHEX, NONHEX}}
    \cup {Filter(NAME, "=", v) : v \in BadValues \cup StructuredValues}
    \cup { Filter(NAME, "like", Str(ADOTB)), Filter(NAME, "not like", Str(ADOTB)),
           Filter(NAME, "in", Arr(<<Str(AB)>>)), Filter(NAME, "like", Num(1)),
           Filter(N, "<", Num(2)),
           Filter(BADFIELD, "=", Str(AB)), Filter(BADFIELD, "invalid", Str(AB)),
           Filter(UID, "=", Str(OID1)) }

Lists(S, k) == UNION {[1..j -> S] : j \in 0..k}

\* the records of the collection: record k has _id kkk...k, a name and a
\* number n; record 2 carries its own id, record 3 a symbol
DigitChar(k) == <<"1", "2", "3", "4", "5", "6", "7", "8", "9">>[k]
DocKey(k) == Rep(DigitChar(k), ObjectIdHexLen)
Doc(k) ==
    Obj(<<<<UID, ObjectId(DocKey(k))>>,
          <<NAME, Str(IF k % 2 = 1 THEN AB ELSE CD)>>,
          <<N, Num((3 * k) % 5)>>>>
        \o (IF k = 2 THEN <<<<ID, Num(7)>>>> ELSE <<>>)
        \o (IF k = 3 THEN <<<<WEIRD, Symbol>>>> ELSE <<>>))

Collections == {[k \in 1..j |-> Doc(k)] : j \in 0..MaxDocs}

BigOffset == MaxDocs + 2

PageInputs == {Undefined, Frac(1, 5), Str(<<"1">>)} \cup {Num(k) : k \in -1..MaxPage}
LimitInputs == {Undefined, Frac(3, 1), Str(<<"x">>)} \cup {Num(k) : k \in {-2} \cup 0..MaxLimit}
OffsetInputs == {Undefined, Frac(4, 2), Str(<<"0">>), Num(BigOffset)} \cup {Num(k) : k \in -1..MaxOffset}
SortInputs == {<<Undefined, Undefined>>, <<Str(N), Undefined>>, <<Str(N), Str(DESC)>>}

PaginationInputs ==
    {Pagination(p, l, o, s[1], s[2]) : p \in PageInputs, l \in LimitInputs, o \in OffsetInputs, s \in SortInputs}

FilterInputs ==
    { <<>>,
      <<Filter(NAME, "=", Str(AB))>>,
      <<Filter(ID, "=", Str(DocKey(1)))>>,
      <<Filter(NAME, "invalid", Str(AB))>>,
      <<Filter(NAME, "=", Obj(<<<<WHERE, Str(AB)>>>>))>> }

QueryInputs == {Query(f, p) : f \in FilterInputs, p \in PaginationInputs}

\* the queries of concurrent invocations
ConcurrentQueries ==
    { Query(<<>>, Pagination(Undefined, Undefined, Undefined, Undefined, Undefined)),
      Query(<<>>, Pagination(Num(2), Num(1), Undefined, Str(N), Undefined)),
      Query(<<Filter(NAME, "=", Str(AB))>>, Pagination(Undefined, Num(1), Num(1), Str(N), Str(DESC))),
      Query(<<Filter(NAME, "invalid", Str(AB))>>, Pagination(Undefined, Undefined, Undefined, Undefined, Undefined)),
      Query(<<>>, Pagination(Frac(1, 5), Num(1), Undefined, Undefined, Undefined)) }

BackendErrors == {Error("BackendError", "MongoDB Error"), Error("BackendError", "connection closed")}

(* ------------------------------ the builder --------------------------- *)
NotBuilt == [done |-> FALSE, ok |-> FALSE, err |-> NoError, conditions |-> EmptyMap]

InitBuild ==
    /\ filters \in Lists(FilterUniverse, MaxFilters)
    /\ built = NotBuilt
    /\ coll = <<>> /\ query = <<>> /\ pc = <<>> /\ frame = <<>> /\ resp = <<>> /\ err = <<>>
    /\ countCalls = <<>> /\ fetchCalls = <<>> /\ logs = <<>> /\ raised = <<>>

Build ==
    /\ ~built.done
    /\ LET r == buildFilterExpression(filters) IN
       built' = [done |-> TRUE, ok |-> r.ok, err |-> r.err,
                 conditions |-> IF r.ok THEN r.val ELSE EmptyMap]
    /\ UNCHANGED <<filters, coll, query, pc, frame, resp, err, countCalls, fetchCalls, logs, raised>>

NextBuild == Build

SpecBuild == InitBuild /\ [][NextBuild]_vars

(* --------------------- fetchWithFiltersAndPagination ------------------ *)
\* locals kept in fields of one shared service object
FrameOfShared(i) == 1

\* the locals of an invocation live in its own activation
FrameOf(i) == i

Calls == DOMAIN pc

InitCalls(k, queries) ==
    /\ filters = <<>> /\ built = NotBuilt
    /\ coll \in Collections
    /\ query \in [1..k -> queries]
    /\ pc = [i \in 1..k |-> "start"]
    /\ frame = [i \in 1..k |-> <<>>]
    /\ resp = [i \in 1..k |-> <<>>]
    /\ err = [i \in 1..k |-> NoError]
    /\ countCalls = [i \in 1..k |-> 0]
    /\ fetchCalls = [i \in 1..k |-> 0]
    /\ logs = [i \in 1..k |-> 0]
    /\ raised = [i \in 1..k |-> <<>>]

\* catch (error) { this.handleError(error); throw error; }
Catch(i, e) ==
    LET h == handleError(e) IN
    /\ pc' = [pc EXCEPT ![i] = "failed"]
    /\ logs' = [logs EXCEPT ![i] = @ + h.logged]
    /\ err' = [err EXCEPT ![i] = h.thrown]
    /\ raised' = [raised EXCEPT ![i] = Append(@, e)]

Prepare(i) ==
    /\ pc[i] = "start"
    /\ LET r == prepareQueryParameters(query[i]) IN
       IF r.ok
       THEN /\ frame' = [frame EXCEPT ![FrameOf(i)] = <<r.val>>]
            /\ pc' = [pc EXCEPT ![i] = "prepared"]
            /\ UNCHANGED <<logs, err, raised>>
       ELSE /\ Catch(i, r.err)
            /\ UNCHANGED frame
    /\ UNCHANGED <<filters, built, coll, query, resp, countCalls, fetchCalls>>

CallCount(i) ==
    /\ pc[i] = "prepared"
    /\ countCalls' = [countCalls EXCEPT ![i] = @ + 1]
    /\ pc' = [pc EXCEPT ![i] = "counting"]
    /\ UNCHANGED <<filters, built, coll, query, frame, resp, err, fetchCalls, logs, raised>>

CountResolve(i) ==
    /\ pc[i] = "counting"
    /\ LET fr == frame[FrameOf(i)][1]
           totalBeforeOffset == countDocuments(coll, fr.params.conditions)
       IN frame' = [frame EXCEPT ![FrameOf(i)] = <<fr, afterCount(fr, totalBeforeOffset)>>]
    /\ fetchCalls' = [fetchCalls EXCEPT ![i] = @ + 1]
    /\ pc' = [pc EXCEPT ![i] = "fetching"]
    /\ UNCHANGED <<filters, built, coll, query, resp, err, countCalls, logs, raised>>

CountReject(i) ==
    /\ pc[i] = "counting"
    /\ \E e \in BackendErrors : Catch(i, e)
    /\ UNCHANGED <<filters, built, coll, query, frame, resp, countCalls, fetchCalls>>

FetchResolve(i) ==
    /\ pc[i] = "fetching"
    /\ LET fr == frame[FrameOf(i)][1]
           counted == frame[FrameOf(i)][2]
           items == executeQuery(fr.params, coll)
           response == IF items.ok THEN makeResponse(fr, counted, items.val) ELSE Throw(items.err)
       IN IF response.ok
          THEN /\ resp' = [resp EXCEPT ![i] = <<response.val>>]
               /\ pc' = [pc EXCEPT ![i] = "done"]
               /\ UNCHANGED <<logs, err, raised>>
          ELSE /\ Catch(i, response.err)
               /\ UNCHANGED resp
    /\ UNCHANGED <<filters, built, coll, query, frame, countCalls, fetchCalls>>

FetchReject(i) ==
    /\ pc[i] = "fetching"
    /\ \E e \in BackendErrors : Catch(i, e)
    /\ UNCHANGED <<filters, built, coll, query, frame, resp, countCalls, fetchCalls>>

Next ==
    \/ \E i \in Calls : Prepare(i)
    \/ \E i \in Calls : CallCount(i)
    \/ \E i \in Calls : CountResolve(i)
    \/ \E i \in Calls : CountReject(i)
    \/ \E i \in Calls : FetchResolve(i)
    \/ \E i \in Calls : FetchReject(i)

\* concurrent invocations on one collection
Init == InitCalls(NumCalls, ConcurrentQueries)
Spec == Init /\ [][Next]_vars

\* one invocation, every pagination and filter input
InitOne == InitCalls(1, QueryInputs)
SpecOne == InitOne /\ [][Next]_vars

(* ================================ claims ============================== *)
Started(i) == pc[i] # "start"
InFlight(i) == pc[i] \in {"prepared", "counting", "fetching"}

\* a pagination field that is present and is not an exact integer: a number
\* with a fractional part, or a string (numeric or not)
NotAnInteger(v) == (v.t = "number" /\ v.frac # 0) \/ v.t = "string"
NonIntegerPagination(p) == NotAnInteger(p.page) \/ NotAnInteger(p.limit) \/ NotAnInteger(p.offset)

\* C1: an invocation whose pagination has a non-integer page, limit or offset
\* fails with a "must be an integer" error, and neither the count nor the
\* fetch has been invoked.
C1_NonIntegerPaginationRejected ==
    \A i \in Calls :
        (Started(i) /\ NonIntegerPagination(query[i].pagination))
            => /\ pc[i] = "failed"
               /\ err[i].kind = "must be an integer"
               /\ resp[i] = <<>>
               /\ countCalls[i] = 0
               /\ fetchCalls[i] = 0

\* C1 witness: a numeric string as page has been rejected before any backend call
C1_Witness ==
    \E i \in Calls :
        /\ pc[i] = "failed"
        /\ query[i].pagination.page = Str(<<"1">>)
        /\ ~NotAnInteger(query[i].pagination.limit) /\ ~NotAnInteger(query[i].pagination.offset)
        /\ err[i].kind = "must be an integer"
        /\ countCalls[i] = 0 /\ fetchCalls[i] = 0

Unsupported(fs) == {fs[k].operator : k \in {j \in 1..Len(fs) : fs[j].operator \notin EnumOperators}}

\* C2: a non-empty filter list that holds a filter with an operator outside
\* the operator table does not compile: the build fails, no conditions are
\* returned, and an unsupported-operator error names such an operator of the list.
C2_UnsupportedOperatorRejected ==
    (built.done /\ Unsupported(filters) # {})
        => /\ ~built.ok
           /\ built.conditions = EmptyMap
           /\ built.err.kind = "Unsupported operator" => built.err.detail \in Unsupported(filters)

RECURSIVE ContainsReservedKey(_)
ContainsReservedKey(v) ==
    \/ v.t = "object" /\ \E i \in 1..Len(v.kids) : StartsWith(v.kids[i][1], "$")
    \/ v.t \in {"object", "array"} /\ \E i \in 1..Len(v.kids) : ContainsReservedKey(v.kids[i][2])

\* C3: a filter list in which some value is or contains, at any depth, an
\* object with a key starting with "$" never compiles: the build fails in the
\* value check, before any condition is built, wherever the filter stands.
C3_ReservedKeyValueRejected ==
    (built.done /\ \E k \in 1..Len(filters) : ContainsReservedKey(filters[k].value))
        => /\ ~built.ok
           /\ built.err.kind = "ValidationError"
           /\ built.conditions = EmptyMap

\* C3 witness: a valid first filter, a second filter with a reserved key two
\* levels down, and the build has failed
C3_Witness ==
    /\ built.done /\ ~built.ok
    /\ Len(filters) = 2
    /\ filters[1] = Filter(NAME, "=", Str(AB))
    /\ filters[2].value = Obj(<<<<NESTED, Obj(<<<<DNE, Num(0)>>>>)>>>>)

\* a filter on id whose value is a string in the native key format
IdWithNativeKey(f) == f.field = ID /\ isValid(f.value)
IdWithOtherValue(f) == f.field = ID /\ ~isValid(f.value)

\* the filters that write the condition on _id, and the order in which the
\* builder writes: the extracted primary filter first, then the others in
\* list order
TargetsNativeKey(f) == IdWithNativeKey(f) \/ f.field = UID
WrittenAfter(j, k) ==
    LET pk == PkIndex(filters) IN
    j # k /\ j # pk /\ (k = pk \/ j > k)

\* the condition is the value itself or a one-operator predicate on it
Carries(condition, value) ==
    \/ condition = value
    \/ condition.t = "object" /\ Len(condition.kids) = 1 /\ condition.kids[1][2] = value

NoIdKeyFromNativeKeys ==
    ID \in DOMAIN built.conditions => \E j \in 1..Len(filters) : IdWithOtherValue(filters[j])

NoRewriteOfOtherValues ==
    \A k \in 1..Len(filters) : IdWithOtherValue(filters[k]) => ID \in DOMAIN built.conditions

\* C4 as stated: when the list holds a filter on id with a native-key value,
\* the compiled conditions hold a condition on _id that carries the converted
\* key of such a filter, and no key id stems from it; an id filter with
\* another value is not rewritten.
C4_Original ==
    (built.done /\ built.ok)
        => /\ (\E k \in 1..Len(filters) : IdWithNativeKey(filters[k]))
                  => /\ UID \in DOMAIN built.conditions
                     /\ \E k \in 1..Len(filters) :
                            /\ IdWithNativeKey(filters[k])
                            /\ Carries(built.conditions[UID], ObjectId(filters[k].value.s))
           /\ NoIdKeyFromNativeKeys
           /\ NoRewriteOfOtherValues

\* C4 amended: the condition on _id exists, and it carries the converted key
\* of the filter unless another filter targeting _id is written after it.
C4_IdRewrittenToNativeKey ==
    (built.done /\ built.ok)
        => /\ \A k \in 1..Len(filters) :
                  IdWithNativeKey(filters[k])
                      => /\ UID \in DOMAIN built.conditions
                         /\ (\A j \in 1..Len(filters) : ~(TargetsNativeKey(filters[j]) /\ WrittenAfter(j, k)))
                                => Carries(built.conditions[UID], ObjectId(filters[k].value.s))
           /\ NoIdKeyFromNativeKeys
           /\ NoRewriteOfOtherValues

\* C4 witness: a primary and a remaining filter on id, both with native keys,
\* compiled to one condition on _id that carries the key of the second
C4_Witness ==
    /\ built.done /\ built.ok
    /\ filters = <<Filter(ID, "=", Str(OIDUPPER)), Filter(ID, "=", Str(OID2))>>
    /\ DOMAIN built.conditions = {UID}
    /\ built.conditions[UID] = Obj(<<<<DEQ, ObjectId(OID2)>>>>)

\* the predicates the operator table stands for (a bare value is the
\* backend's equality as well)
TablePredicate(operator, value) ==
    CASE operator = "<" -> {Obj(<<<<DLT, value>>>>)}
      [] operator = "<=" -> {Obj(<<<<DLTE, value>>>>)}
      [] operator = ">" -> {Obj(<<<<DGT, value>>>>)}
      [] operator = ">=" -> {Obj(<<<<DGTE, value>>>>)}
      [] operator = "=" -> {Obj(<<<<DEQ, value>>>>), value}
      [] operator = "!=" -> {Obj(<<<<DNE, value>>>>)}
      [] operator = "in" -> {Obj(<<<<DIN, value>>>>)}
      [] operator = "not in" -> {Obj(<<<<DNIN, value>>>>)}
      [] operator = "like" -> {Obj(<<<<DREGEX, RegExp(escapeRegex(value.s), <<"i">>)>>>>)}
      [] operator = "not like" ->
            { Obj(<<<<DNOT, RegExp(escapeRegex(value.s), <<"i">>)>>>>),
              Obj(<<<<DNOT, Obj(<<<<DREGEX, RegExp(escapeRegex(value.s), <<"i">>)>>>>)>>>>) }

ValidFilter(f) ==
    /\ f.operator \in EnumOperators
    /\ ~Includes(f.field, "$")
    /\ ~ContainsReservedKey(f.value)
    /\ f.operator \in {"like", "not like"} => f.value.t = "string"
    /\ f.operator \in {"in", "not in"} => f.value.t = "array"

\* the field a filter's condition is stored under, and the value it is about
TargetField(f) == IF IdWithNativeKey(f) THEN UID ELSE f.field
TargetValue(f) == IF IdWithNativeKey(f) THEN ObjectId(f.value.s) ELSE f.value

\* C10: a list of filters with operators of the enumeration, valid fields and
\* valid values compiles, and the condition stored for the field of a filter
\* (the only one on that field) is the table's predicate on the filter's value.
C10_EveryOperatorCompiles ==
    (built.done /\ Len(filters) > 0 /\ \A k \in 1..Len(filters) : ValidFilter(filters[k]))
        => /\ built.ok
           /\ \A k \in 1..Len(filters) :
                  (\A j \in 1..Len(filters) : j # k => TargetField(filters[j]) # TargetField(filters[k]))
                      => /\ TargetField(filters[k]) \in DOMAIN built.conditions
                         /\ built.conditions[TargetField(filters[k])]
                                \in TablePredicate(filters[k].operator, TargetValue(filters[k]))

(* ------------------------- claims on the service --------------------- *)
\* what the request asks for
RequestedOffset(q) == IF q.pagination.offset.t = "number" THEN q.pagination.offset.n ELSE 0
UsedLimit(q) == IF q.pagination.limit.t = "number" /\ q.pagination.limit.n # 0 THEN q.pagination.limit.n ELSE 10
UsedPage(q) == IF q.pagination.page.t = "number" /\ q.pagination.page.n # 0 THEN q.pagination.page.n ELSE 1

\* the count the collection returns for the filters of a request
CountOf(q) == countDocuments(coll, buildFilterExpression(q.filters).val)

\* C5: a successful call returns total = max(0, c - o) and
\* page = min(page, ceil(total / limit)); when the offset o is larger than
\* the count c it returns total = 0, page = 0 and no data.
C5_TotalAndPage ==
    \A i \in Calls :
        pc[i] = "done"
            => LET r == resp[i][1]
                   c == CountOf(query[i])
                   o == RequestedOffset(query[i])
               IN /\ r.total = Max(0, c - o)
                  /\ r.page = Min(UsedPage(query[i]), CeilDiv(r.total, UsedLimit(query[i])))
                  /\ o > c => (r.total = 0 /\ r.page = 0 /\ r.data = <<>>)

\* C6: the limit is pagination.limit when present and non-zero and 10
\* otherwise, the page is pagination.page when present and non-zero and 1
\* otherwise, the fetch is issued with that limit and with skip
\* offset + (page - 1) * limit, and the response reports that limit.
C6_LimitPageAndSkip ==
    \A i \in Calls :
        LET q == query[i]
            f == frame[FrameOf(i)]
        IN /\ (InFlight(i) \/ pc[i] = "done")
                => /\ f[1].limit = UsedLimit(q)
                   /\ f[1].page = UsedPage(q)
                   /\ f[1].params.limit = UsedLimit(q)
                   /\ f[1].params.skip = RequestedOffset(q) + (UsedPage(q) - 1) * UsedLimit(q)
           /\ pc[i] = "done"
                => /\ resp[i][1].limit = UsedLimit(q)
                   /\ UsedLimit(q) > 0 => Len(resp[i][1].data) <= UsedLimit(q)

\* C6 witness: a request with limit 0 has been answered with limit 10
C6_Witness ==
    \E i \in Calls :
        /\ pc[i] = "done"
        /\ query[i].pagination.limit = Num(0)
        /\ frame[FrameOf(i)][1].params.limit = 10
        /\ resp[i][1].limit = 10
        /\ Len(resp[i][1].data) = MaxDocs

\* the raw records the fetch of a finished invocation returned
RawItems(i) == executeQuery(frame[FrameOf(i)][1].params, coll).val

Keys(obj) == {obj.kids[j][1] : j \in 1..Len(obj.kids)}

PassedThrough(raw, shaped) ==
    /\ ~HasKey(shaped, UID)
    /\ HasKey(shaped, ID)
    /\ Keys(shaped) = (Keys(raw) \ {UID}) \cup {ID}
    /\ \A key \in Keys(raw) \ {UID, ID} : Get(shaped, key) = Get(raw, key)

\* C7 as stated: every element of data has no _id, has as id the string form
\* of the record's _id, also when the record has its own id, and has every
\* other field of the record unchanged.
C7_Original ==
    \A i \in Calls :
        pc[i] = "done"
            => /\ Len(resp[i][1].data) = Len(RawItems(i))
               /\ \A k \in 1..Len(RawItems(i)) :
                      /\ PassedThrough(RawItems(i)[k], resp[i][1].data[k])
                      /\ Get(resp[i][1].data[k], ID) = Str(Get(RawItems(i)[k], UID).s)

\* C7 amended: the id is the string form of _id unless the record has its
\* own id field, whose value is kept.
C7_Reshaped ==
    \A i \in Calls :
        pc[i] = "done"
            => /\ Len(resp[i][1].data) = Len(RawItems(i))
               /\ \A k \in 1..Len(RawItems(i)) :
                      LET raw == RawItems(i)[k]
                          shaped == resp[i][1].data[k]
                      IN /\ PassedThrough(raw, shaped)
                         /\ Get(shaped, ID) = IF HasKey(raw, ID) THEN Get(raw, ID)
                                              ELSE Str(Get(raw, UID).s)

\* C7 witness: a response holding a record that had its own id, and one with
\* a symbol
C7_Witness ==
    \E i \in Calls :
        /\ pc[i] = "done"
        /\ \E k \in 1..Len(resp[i][1].data) :
               /\ HasKey(RawItems(i)[k], ID)
               /\ Get(resp[i][1].data[k], ID) = Num(7)
        /\ \E k \in 1..Len(resp[i][1].data) :
               /\ HasKey(resp[i][1].data[k], WEIRD)
               /\ Get(resp[i][1].data[k], WEIRD) = Symbol
               /\ Get(resp[i][1].data[k], ID) = Str(DocKey(3))

\* C8: count and fetch are invoked at most once each, the fetch only after
\* the count has succeeded; a failed invocation fails with the very error
\* that was raised, logged once, without a response.
C8_OneAttemptSameError ==
    \A i \in Calls :
        /\ countCalls[i] <= 1 /\ fetchCalls[i] <= 1
        /\ fetchCalls[i] = 1 => (countCalls[i] = 1 /\ Len(frame[FrameOf(i)]) = 2)
        /\ pc[i] = "failed"
              => /\ Len(raised[i]) = 1
                 /\ err[i] = raised[i][1]
                 /\ logs[i] = 1
                 /\ resp[i] = <<>>
        /\ pc[i] # "failed" => (logs[i] = 0 /\ err[i] = NoError /\ raised[i] = <<>>)
        /\ pc[i] = "done" => (countCalls[i] = 1 /\ fetchCalls[i] = 1)

\* C8 witness: one invocation failed in the count, without a fetch, another
\* in the fetch
C8_Witness ==
    \E i, j \in Calls :
        /\ pc[i] = "failed" /\ countCalls[i] = 1 /\ fetchCalls[i] = 0
        /\ err[i] \in BackendErrors /\ logs[i] = 1
        /\ pc[j] = "failed" /\ fetchCalls[j] = 1
        /\ err[j] \in BackendErrors /\ logs[j] = 1

\* what an invocation returns when it runs alone on the collection
Alone(q) ==
    LET p == prepareQueryParameters(q) IN
    IF ~p.ok THEN Throw(p.err)
    ELSE LET counted == afterCount(p.val, countDocuments(coll, p.val.params.conditions))
             items == executeQuery(p.val.params, coll)
         IN IF ~items.ok THEN Throw(items.err) ELSE makeResponse(p.val, counted, items.val)

\* C9: under every interleaving of concurrent invocations on one unchanged
\* collection, an invocation that returns, returns what it returns alone, two
\* invocations with the same input return the same response, and an
\* invocation in flight works on the parameters of its own request.
C9_ConcurrentAsAlone ==
    \A i \in Calls :
        /\ pc[i] = "done" => (Alone(query[i]).ok /\ resp[i] = <<Alone(query[i]).val>>)
        /\ InFlight(i) => (/\ Len(frame[FrameOf(i)]) >= 1
                           /\ frame[FrameOf(i)][1] = prepareQueryParameters(query[i]).val)
        /\ \A j \in Calls : (pc[i] = "done" /\ pc[j] = "done" /\ query[i] = query[j]) => resp[i] = resp[j]

\* C9 witness: two invocations with different requests have both returned,
\* with different responses
C9_Witness ==
    \E i, j \in Calls :
        /\ pc[i] = "done" /\ pc[j] = "done"
        /\ query[i] # query[j]
        /\ resp[i][1].data # resp[j][1].data
        /\ resp[i][1].data # <<>> /\ resp[j][1].data # <<>>

\* the filters compiled with the pattern operators, alone on their field
OnlyOnField(k) == \A j \in 1..Len(filters) : j # k => TargetField(filters[j]) # TargetField(filters[k])

\* C11: the predicate compiled for "not like" wraps the pattern that "like"
\* compiles for the same value (escaped, case-insensitive) in exactly one
\* negation.
C11_NotLikeNegatesLikeOnce ==
    (built.done /\ built.ok)
        => \A k \in 1..Len(filters) :
               (filters[k].operator = "not like" /\ filters[k].field # pkName /\ OnlyOnField(k))
                   => LET likePredicate == buildSubExpression(filters[k].field, "like", filters[k].value).val
                          pattern == likePredicate.kids[1][2]
                      IN /\ pattern = RegExp(escapeRegex(filters[k].value.s), <<"i">>)
                         /\ built.conditions[filters[k].field]
                                \in {Obj(<<<<DNOT, pattern>>>>), Obj(<<<<DNOT, likePredicate>>>>)}

HasReservedField(f) == \E c \in 1..Len(f.field) : f.field[c] = "$"

NoReservedConditionKey == \A key \in DOMAIN built.conditions : \A c \in 1..Len(key) : key[c] # "$"

\* C12 as stated: a non-empty list with a filter whose field name contains
\* "$" fails with the "Invalid field name" error and returns no expression.
C12_Original ==
    /\ (built.done /\ \E k \in 1..Len(filters) : HasReservedField(filters[k]))
           => /\ ~built.ok
              /\ built.err.kind = "Invalid field name"
              /\ built.conditions = EmptyMap
    /\ NoReservedConditionKey

\* a filter that the loop over the remaining filters gets past
CompilesAlone(f) ==
    LET g == rewriteId(f) IN buildSubExpression(g.field, g.operator, g.value).ok

\* C12 amended: the build fails and returns nothing; the error is the
\* "Invalid field name" error when every value passes the value check and
\* every filter standing before the first such field compiles.
C12_ReservedFieldRejected ==
    /\ (built.done /\ \E k \in 1..Len(filters) : HasReservedField(filters[k]))
           => /\ ~built.ok
              /\ built.conditions = EmptyMap
              /\ built.err.kind \in {"Invalid field name", "ValidationError", "Unsupported operator", "TypeError"}
              /\ LET first == CHOOSE k \in 1..Len(filters) :
                                  /\ HasReservedField(filters[k])
                                  /\ \A j \in 1..(k - 1) : ~HasReservedField(filters[j])
                 IN (/\ \A j \in 1..Len(filters) : ~ContainsReservedKey(filters[j].value)
                     /\ \A j \in 1..(first - 1) : j = PkIndex(filters) \/ CompilesAlone(filters[j]))
                        => built.err.kind = "Invalid field name"
    /\ NoReservedConditionKey

\* C12 witness: a valid filter followed by a filter on a field with "$" has
\* been rejected with the field-name error
C12_Witness ==
    /\ built.done /\ ~built.ok
    /\ filters = <<Filter(NAME, "=", Str(AB)), Filter(BADFIELD, "=", Str(AB))>>
    /\ built.err.kind = "Invalid field name"
    /\ built.conditions = EmptyMap

AllValid == Len(filters) > 0 /\ \A k \in 1..Len(filters) : ValidFilter(filters[k])

TargetFields == {TargetField(filters[k]) : k \in 1..Len(filters)}

\* what the builder stores for one filter: the value for the extracted
\* primary filter, the operator's predicate for the others
StoredFor(k) ==
    IF k = PkIndex(filters) THEN TargetValue(filters[k])
    ELSE LET f == rewriteId(filters[k]) IN buildSubExpression(f.field, f.operator, f.value).val

\* either form of the condition of one filter
ConditionsOf(k) ==
    LET f == rewriteId(filters[k])
    IN {TargetValue(filters[k]), buildSubExpression(f.field, f.operator, f.value).val}

LastInList(k) ==
    \A j \in 1..Len(filters) : TargetField(filters[j]) = TargetField(filters[k]) => j <= k

LastWritten(k) ==
    \A j \in 1..Len(filters) : TargetField(filters[j]) = TargetField(filters[k]) => ~WrittenAfter(j, k)

\* C13 as stated: a valid list that compiles gives one entry per distinct target
\* field, and the entry is the condition of the filter that stands last in
\* the list among those on that field.
C13_Original ==
    (built.done /\ built.ok /\ AllValid)
        => /\ DOMAIN built.conditions = TargetFields
           /\ \A k \in 1..Len(filters) :
                  LastInList(k) => built.conditions[TargetField(filters[k])] \in ConditionsOf(k)

\* C13 amended: a valid list that compiles gives one entry per distinct target field,
\* and the entry is the condition of the filter written last on that field,
\* where the extracted primary filter is written before all others and the
\* others in list order; the entry holds nothing of the filters before it.
C13_LastWriteWins ==
    (built.done /\ built.ok /\ AllValid)
        => /\ DOMAIN built.conditions = TargetFields
           /\ \A k \in 1..Len(filters) :
                  LastWritten(k) => built.conditions[TargetField(filters[k])] = StoredFor(k)

\* C13 witness: the primary filter on id stands last in the list and has
\* been overwritten by the filter on _id that stands before it
C13_Witness ==
    /\ built.done /\ built.ok
    /\ filters = <<Filter(UID, "=", Str(OID1)), Filter(ID, "=", Str(OID1))>>
    /\ DOMAIN built.conditions = {UID}
    /\ built.conditions[UID] = Obj(<<<<DEQ, Str(OID1)>>>>)

\* the matching records of a request in the order the request asks for
MatchingInOrder(i) ==
    LET p == frame[FrameOf(i)][1].params
        found == Select(coll, p.conditions)
    IN IF p.sort.has THEN SortDocs(found, p.sort) ELSE found

\* the records of a list from position start on, at most n of them
SliceAt(s, start, n) == Take(Drop(s, start), n)

\* a request with a page and a limit of at least 1 and no negative offset
PlainPagination(q) == UsedPage(q) >= 1 /\ UsedLimit(q) >= 1 /\ RequestedOffset(q) >= 0

\* C14: the data of a successful call is the slice of the matching records,
\* in sort order, that starts at offset + (response.page - 1) * response.limit
\* and has at most response.limit elements, also when the page was clamped.
C14_DataIsReportedPage ==
    \A i \in Calls :
        (pc[i] = "done" /\ PlainPagination(query[i]) /\ resp[i][1].page >= 1)
            => LET r == resp[i][1]
                   start == RequestedOffset(query[i]) + (r.page - 1) * r.limit
               IN r.data = processResults(SliceAt(MatchingInOrder(i), start, r.limit)).val

\* C15: for a validated pagination the skip passed to the backend is >= 0,
\* the limit passed is >= 1 and is set on the cursor, and the response has
\* total >= 0, limit >= 1, 0 <= page <= requested page and no more data than
\* limit.
C15_PaginationInBounds ==
    \A i \in Calls :
        /\ (InFlight(i) \/ pc[i] = "done")
              => LET p == frame[FrameOf(i)][1].params
                 IN /\ p.skip >= 0
                    /\ p.limit >= 1
                    /\ (IF p.limit > 0 THEN p.limit ELSE NoLimit) # NoLimit
        /\ pc[i] = "done"
              => LET r == resp[i][1]
                     requested == IF query[i].pagination.page.t = "number"
                                  THEN query[i].pagination.page.n ELSE DefaultPage
                 IN /\ r.total >= 0
                    /\ r.limit >= 1
                    /\ 0 <= r.page /\ r.page <= requested
                    /\ Len(r.data) <= r.limit

====
